---- MODULE Spec2Model ----
(***************************************************************************)
(* A model of the envbee SDK client (envbee_sdk/main.py, utils.py): the    *)
(* Envbee facade with its HMAC signer, its single remote attempt per call, *)
(* its per-credential disk cache and the fallback to that cache, and the   *)
(* query-string helper add_querystring.                                    *)
(*                                                                         *)
(* A call is modelled in two steps, split at the blocking requests.get:    *)
(* the *Call action runs the handler up to the request being on the wire   *)
(* (or to the raise of a failed signing), the *Resume action takes the     *)
(* transport's outcome and runs the handler to its return.                 *)
(***************************************************************************)
EXTENDS Integers, Sequences, FiniteSets, TLC

VARIABLES client, store, pc, call, ret, qs, sig, fetched, threads, carried

vars == <<client, store, pc, call, ret, qs, sig, fetched, threads, carried>>

(***************************************************************************)
(* Bounds and input sets.                                                  *)
(***************************************************************************)
\* longest 'data' array a response carries
MaxData == 2
\* most raw pairs in the query string of a URL given to add_querystring
MaxQuery == 2

\* Python values, tagged by type
PyNone == [t |-> "none"]
PyInt(i) == [t |-> "int", i |-> i]
PyStr(s) == [t |-> "str", s |-> s]
PyList(l) == [t |-> "list", l |-> l]
\* bool(v), as `if v:` takes it
Truthy(v) ==
    CASE v.t = "none" -> FALSE
      [] v.t = "int" -> v.i # 0
      [] v.t = "str" -> v.s # ""
      [] v.t = "list" -> v.l # <<>>
\* str(v), as "%s" and urlencode take it
Str(v) ==
    CASE v.t = "none" -> "None"
      [] v.t = "int" -> ToString(v.i)
      [] v.t = "str" -> v.s

\* variable names; a name of BadNames holds a lone surrogate, which UTF-8
\* cannot encode
Names == {"A", "B"}
BadNames == {"U"}
Values == {PyStr("x"), PyStr("y")}
\* the reading of the clock, int(time.time() * 1000), during a call
Times == {1000}
\* offset and limit arguments of get_variables
Offsets == {PyNone, PyInt(0), PyInt(10)}
Limits == {PyNone, PyInt(5)}

(***************************************************************************)
(* utils.py: add_querystring.  A URL is held by the parts urlparse splits  *)
(* it into: its path, its query as the sequence of raw "k=v" pairs between *)
(* the '&'s, and its fragment.  A Python dict is the sequence of its items *)
(* [k, v] in insertion order.                                              *)
(***************************************************************************)
\* percent-decoding of a raw query token, as parse_qs applies it
unquote_plus(s) ==
    CASE s = "a%20b" -> "a b"
      [] s = "a+b" -> "a b"
      [] OTHER -> s
\* percent-encoding of a key or value, as urlencode applies it
quote_plus(s) == IF s = "a b" THEN "a+b" ELSE s

DictKeys(d) == {d[i].k : i \in 1..Len(d)}
DictGet(d, k) == d[CHOOSE i \in 1..Len(d) : d[i].k = k].v
\* d[k] = v: an existing key keeps its position
DictSet(d, k, v) ==
    IF k \in DictKeys(d)
    THEN [i \in 1..Len(d) |-> IF d[i].k = k THEN [k |-> k, v |-> v] ELSE d[i]]
    ELSE Append(d, [k |-> k, v |-> v])

\* parse_qs(query): key -> list of values; keep_blank_values is False, so
\* a pair with an empty value is skipped
RECURSIVE parse_qs(_)
parse_qs(query) ==
    IF query = <<>> THEN <<>>
    ELSE LET d == parse_qs(SubSeq(query, 1, Len(query) - 1))
             p == query[Len(query)]
             k == unquote_plus(p.k)
             v == unquote_plus(p.v)
         IN  IF p.v = "" THEN d
             ELSE IF k \in DictKeys(d)
                  THEN DictSet(d, k, PyList(Append(DictGet(d, k).l, v)))
                  ELSE DictSet(d, k, PyList(<<v>>))

\* query.update(params)
RECURSIVE dict_update(_, _)
dict_update(d, params) ==
    IF params = <<>> THEN d
    ELSE dict_update(DictSet(d, params[1].k, params[1].v), Tail(params))

\* urlencode(query, doseq=True): one pair per element of a list value, one
\* pair of str(v) for any other value
RECURSIVE urlencode(_)
urlencode(d) ==
    IF d = <<>> THEN <<>>
    ELSE LET e == d[1]
             pairs == IF e.v.t = "list"
                      THEN [i \in 1..Len(e.v.l) |->
                               [k |-> quote_plus(e.k), v |-> quote_plus(e.v.l[i])]]
                      ELSE <<[k |-> quote_plus(e.k), v |-> quote_plus(Str(e.v))]>>
         IN  pairs \o urlencode(Tail(d))

\* the text of a query: its pairs joined by '&'
RECURSIVE QueryText(_)
QueryText(q) ==
    IF q = <<>> THEN ""
    ELSE q[1].k \o "=" \o q[1].v
         \o (IF Len(q) = 1 THEN "" ELSE "&" \o QueryText(Tail(q)))

\* urlunparse(url_parts): the text of a URL
urlunparse(u) ==
    u.path \o (IF u.query # <<>> THEN "?" \o QueryText(u.query) ELSE "")
           \o (IF u.fragment # "" THEN "#" \o u.fragment ELSE "")

\* add_querystring(url, params): the parts of the URL it returns
add_querystring(url, params) ==
    [url EXCEPT !.query = urlencode(dict_update(parse_qs(url.query), params))]

(***************************************************************************)
(* main.py: the Envbee client.                                             *)
(***************************************************************************)
BASE_URL == "https://api.envbee.dev"

\* Envbee.__init__: the fields of the client
Envbee_init(api_key, api_secret, base_url) ==
    [base_url |-> IF Truthy(base_url) THEN base_url.s ELSE BASE_URL,
     api_key |-> api_key,
     api_secret |-> api_secret]

\* str.encode("utf-8") raises on a lone surrogate
Utf8Encodable(s) == s \notin {"/variables-values/" \o n : n \in BadNames}

\* hashlib.md5(json.dumps({}).encode()).hexdigest()
content_hash == "99914b932bd37a50b983c5e7c90ae93b"

\* the hex digest of HMAC-SHA256 under key over msg, held as the pair it
\* is a function of
hmac_hexdigest(key, msg) == "hmac(" \o key \o "," \o msg \o ")"

\* a signer that reads the clock again for the header
_generate_hmac_header_reread(api_secret, url_path, now) ==
    IF api_secret.type # "bytes" \/ ~Utf8Encodable(url_path)
    THEN [raised |-> TRUE, header |-> ""]
    ELSE LET current_time == ToString(now)
             msg == current_time \o "GET" \o url_path \o content_hash
         IN  [raised |-> FALSE,
              header |-> "HMAC " \o ToString(now + 1) \o ":"
                         \o hmac_hexdigest(api_secret.key, msg)]

\* a signer that swallows its failure and hands back an empty header
_generate_hmac_header_quiet(api_secret, url_path, now) ==
    IF api_secret.type # "bytes" \/ ~Utf8Encodable(url_path)
    THEN [raised |-> FALSE, header |-> ""]
    ELSE LET current_time == ToString(now)
             msg == current_time \o "GET" \o url_path \o content_hash
         IN  [raised |-> FALSE,
              header |-> "HMAC " \o current_time \o ":"
                         \o hmac_hexdigest(api_secret.key, msg)]

\* Envbee._generate_hmac_header: hmac.new raises TypeError on a key that
\* is not bytes, url_path.encode raises on an unencodable path; both are
\* logged and raised again
_generate_hmac_header(api_secret, url_path, now) ==
    IF api_secret.type # "bytes" \/ ~Utf8Encodable(url_path)
    THEN [raised |-> TRUE, header |-> ""]
    ELSE LET current_time == ToString(now)
             msg == current_time \o "GET" \o url_path \o content_hash
         IN  [raised |-> FALSE,
              header |-> "HMAC " \o current_time \o ":"
                         \o hmac_hexdigest(api_secret.key, msg)]

\* a transport that sends every request twice
requests_get_twice(wire, url, hmac_header, api_key) ==
    wire \o <<[url |-> url, Authorization |-> hmac_header, x_api_key |-> api_key],
              [url |-> url, Authorization |-> hmac_header, x_api_key |-> api_key]>>

\* requests.get(url, headers, timeout): one more request on the wire
requests_get(wire, url, hmac_header, api_key) ==
    Append(wire, [url |-> url, Authorization |-> hmac_header,
                  x_api_key |-> api_key])

\* Envbee._send_request, from the transport's outcome on: the JSON of a
\* 200, else RequestError, RequestTimeoutError or the exception as it came
_send_request(resp) ==
    CASE resp.kind = "timeout" ->
           [raised |-> TRUE, exc |-> "RequestTimeoutError", json |-> resp.body]
      [] resp.kind = "neterr" ->
           [raised |-> TRUE, exc |-> "ConnectionError", json |-> resp.body]
      [] resp.kind = "http" /\ resp.status # 200 ->
           [raised |-> TRUE, exc |-> "RequestError", json |-> resp.body]
      [] resp.kind = "http" /\ resp.status = 200 /\ resp.body.t = "invalid" ->
           [raised |-> TRUE, exc |-> "JSONDecodeError", json |-> resp.body]
      [] OTHER ->
           [raised |-> FALSE, exc |-> "", json |-> resp.body]

\* a cache directory that depends on the author alone
user_cache_dir_shared(appname, appauthor) == "~/.cache/" \o appauthor

\* platformdirs.user_cache_dir(appname, appauthor)
user_cache_dir(appname, appauthor) == "~/.cache/" \o appname

\* the caches on disk hold nothing for a directory never written
EmptyCache == [n \in {} |-> PyNone]
CacheAt(st, dir) == IF dir \in DOMAIN st THEN st[dir] ELSE EmptyCache
\* a Cache.set that leaves the value of a key already there (Cache.add)
CacheSet_add(cache, key, value) ==
    [n \in DOMAIN cache \cup {key} |-> IF n \in DOMAIN cache THEN cache[n] ELSE value]

\* Cache.set(key, value)
CacheSet(cache, key, value) ==
    [n \in DOMAIN cache \cup {key} |-> IF n = key THEN value ELSE cache[n]]

\* a _cache_variable that opens the cache and stores nothing
_cache_variable_lost(st, api_key, variable_name, variable_value, ok) ==
    [raised |-> FALSE, store |-> st]

\* Envbee._cache_variable: the stores after it, and whether it raised.
\* A failure of the cache (ok false) is caught and logged, and leaves the
\* stores as they were
_cache_variable(st, api_key, variable_name, variable_value, ok) ==
    LET app_cache_dir == user_cache_dir(api_key, "envbee")
    IN  [raised |-> FALSE,
         store |-> IF ok
                   THEN [d \in DOMAIN st \cup {app_cache_dir} |->
                            IF d = app_cache_dir
                            THEN CacheSet(CacheAt(st, d), variable_name,
                                          variable_value)
                            ELSE st[d]]
                   ELSE st]

\* a _get_variable_from_cache that returns from the except clause only
_get_variable_from_cache_miss(st, api_key, variable_name, ok) ==
    [raised |-> FALSE, value |-> PyNone]

\* Envbee._get_variable_from_cache: what it returns, and whether it raised.
\* Cache.get gives None for a missing key; a failure of the cache is caught
\* and logged, and the method ends without a return statement
_get_variable_from_cache(st, api_key, variable_name, ok) ==
    LET app_cache_dir == user_cache_dir(api_key, "envbee")
        reference == CacheAt(st, app_cache_dir)
    IN  [raised |-> FALSE,
         value |-> IF ok /\ variable_name \in DOMAIN reference
                   THEN reference[variable_name]
                   ELSE PyNone]

\* a _get_variables_from_cache that finds no item
_get_variables_from_cache_empty(st, api_key, keys, ok) ==
    [raised |-> FALSE, value |-> PyList(<<>>)]

\* a _get_variables_from_cache without its except clause
_get_variables_from_cache_raises(st, api_key, keys, ok) ==
    LET reference == CacheAt(st, user_cache_dir(api_key, "envbee"))
    IN  [raised |-> ~ok,
         value |-> IF ok
                   THEN PyList([i \in 1..Len(keys) |->
                                   [name |-> keys[i], value |-> reference[keys[i]]]])
                   ELSE PyNone]

\* Envbee._get_variables_from_cache: keys is list(reference), the keys in
\* the order the cache enumerates them; a failure of the cache is caught
\* and logged, and the method ends without a return statement
_get_variables_from_cache(st, api_key, keys, ok) ==
    LET app_cache_dir == user_cache_dir(api_key, "envbee")
        reference == CacheAt(st, app_cache_dir)
    IN  [raised |-> FALSE,
         value |-> IF ok
                   THEN PyList([i \in 1..Len(keys) |->
                                   [name |-> keys[i], value |-> reference[keys[i]]]])
                   ELSE PyNone]

\* the enumerations of a set of keys
Orders(S) ==
    {o \in [1..Cardinality(S) -> S] :
        \A i, j \in 1..Cardinality(S) : o[i] = o[j] => i = j}

(***************************************************************************)
(* What the remote service may answer.  A JSON object is the function      *)
(* from its keys; a body that is no JSON is "invalid", JSON that is no     *)
(* object is "nonobj".                                                     *)
(***************************************************************************)
SeqsUpTo(S, n) == UNION {[1..k -> S] : k \in 0..n}
\* entries of a 'data' array: with both fields, without 'value', without 'name'
Entries ==
    {[name |-> "A", value |-> PyStr("x")], [name |-> "A", value |-> PyStr("y")],
     [name |-> "B", value |-> PyStr("y")], [name |-> "A"], [value |-> PyStr("x")]}
EmptyObject == [k \in {} |-> PyNone]
JsonObjects ==
    {EmptyObject}
    \cup {[value |-> v] : v \in Values}
    \cup {[data |-> PyNone]}
    \cup {[data |-> PyList(l)] : l \in SeqsUpTo(Entries, MaxData)}
Bodies ==
    {[t |-> "nonobj", f |-> EmptyObject]}
    \cup {[t |-> "obj", f |-> o] : o \in JsonObjects}
NoBody == [t |-> "invalid", f |-> EmptyObject]
Responses ==
    {[kind |-> "timeout", status |-> 0, body |-> NoBody],
     [kind |-> "neterr", status |-> 0, body |-> NoBody],
     [kind |-> "http", status |-> 500, body |-> NoBody],
     [kind |-> "http", status |-> 200, body |-> NoBody]}
    \cup {[kind |-> "http", status |-> 200, body |-> b] : b \in Bodies}

\* dict.get(key, default)
Get(o, key, default) == IF key \in DOMAIN o THEN o[key] ELSE default

(***************************************************************************)
(* State.                                                                  *)
(*   client  the fields __init__ sets                                      *)
(*   store   the caches on disk: cache directory -> (name -> value)        *)
(*   pc      "idle", "waiting" (a request is on the wire), "done"          *)
(*   call    the call in progress or last made: its arguments, the path    *)
(*           it built and signed, the requests it sent                     *)
(*   ret     how the call ended, with the cache accesses it made           *)
(*   qs      the last add_querystring applied on its own                   *)
(***************************************************************************)
NoCall ==
    [op |-> "none", name |-> "", offset |-> PyNone, limit |-> PyNone,
     query |-> <<>>, url_path |-> "", signed |-> "", header |-> "",
     final_url |-> "", wire |-> <<>>]
NoResp == [kind |-> "none", status |-> 0, body |-> NoBody]
NoRet ==
    [status |-> "none", value |-> PyNone, branch |-> "", resp |-> NoResp,
     writes |-> <<>>, reads |-> <<>>, before |-> <<>>]
NoQS == [url |-> [path |-> "", query |-> <<>>, fragment |-> ""],
         params |-> <<>>, result |-> [path |-> "", query |-> <<>>, fragment |-> ""]]

\* no call of the signer yet
NoSig == <<>>
\* no name fetched yet
NoneFetched == [n \in {} |-> PyNone]
\* the threads that call one client
Threads == {"t1", "t2"}
\* a thread outside any call
NoThread ==
    [pc |-> "idle", op |-> "none", name |-> "", json |-> NoBody, i |-> 0,
     keys |-> <<>>, status |-> "none", value |-> PyNone, branch |-> "",
     moments |-> {}]

\* the arguments a client is constructed with
CtorArgs ==
    {[api_key |-> "k1", api_secret |-> [type |-> "bytes", key |-> "s1"], base_url |-> PyNone],
     [api_key |-> "k2", api_secret |-> [type |-> "bytes", key |-> "s1"],
      base_url |-> PyStr("http://localhost:8080")],
     [api_key |-> "k1", api_secret |-> [type |-> "str", key |-> "s1"], base_url |-> PyStr("")]}

Init ==
    /\ \E a \in CtorArgs : client = Envbee_init(a.api_key, a.api_secret, a.base_url)
    /\ store = [d \in {} |-> EmptyCache]
    /\ pc = "idle"
    /\ call = NoCall
    /\ ret = NoRet
    /\ qs = NoQS
    /\ sig = NoSig
    /\ fetched = NoneFetched
    /\ threads = [t \in Threads |-> NoThread]
    /\ carried = {}

\* a value no response of the model carries
OtherValue == PyStr("z")

\* the API key of another client of the same user
OtherKey(api_key) == IF api_key = "k1" THEN "k2" ELSE "k1"

\* the state after construction on a machine where a client with another
\* API key has run before: the cache (diskcache) is kept on disk between
\* runs, so the directory of the other key holds what that client stored
InitDisk ==
    /\ \E a \in CtorArgs : client = Envbee_init(a.api_key, a.api_secret, a.base_url)
    /\ store = [d \in {user_cache_dir(OtherKey(client.api_key), "envbee")} |->
                    [n \in Names |-> OtherValue]]
    /\ pc = "idle"
    /\ call = NoCall
    /\ ret = NoRet
    /\ qs = NoQS
    /\ sig = NoSig
    /\ fetched = NoneFetched
    /\ threads = [t \in Threads |-> NoThread]
    /\ carried = {}

(***************************************************************************)
(* Envbee.get_variable.                                                    *)
(***************************************************************************)
\* lines 210-215, up to the request being sent: a failed signing raises to
\* the caller before anything is sent
GetVariableCall(variable_name, now) ==
    /\ pc = "idle"
    /\ LET url_path == "/variables-values/" \o variable_name
           h == _generate_hmac_header(client.api_secret, url_path, now)
           final_url == client.base_url \o url_path
           c == [NoCall EXCEPT !.op = "get_variable", !.name = variable_name,
                               !.url_path = url_path, !.signed = url_path]
       IN  IF h.raised
           THEN /\ call' = c
                /\ pc' = "done"
                /\ ret' = [NoRet EXCEPT !.status = "raised", !.branch = "sign",
                                        !.before = store]
           ELSE /\ call' = [c EXCEPT !.header = h.header, !.final_url = final_url,
                                     !.wire = requests_get(<<>>, final_url, h.header,
                                                           client.api_key)]
                /\ pc' = "waiting"
                /\ ret' = NoRet
    /\ UNCHANGED <<client, store, qs, sig, fetched, threads, carried>>

\* lines 215-224, from the transport's outcome to the return: the value is
\* cached and returned, or any exception of the try block falls back to
\* the cache, and what the fallback raises reaches the caller; cache_ok is
\* whether the cache access of the call works
GetVariableResume(resp, cache_ok) ==
    /\ pc = "waiting"
    /\ call.op = "get_variable"
    /\ LET r == _send_request(resp)
           \* .get of a body that is no object raises AttributeError
           got == ~r.raised /\ r.json.t = "obj"
           v == IF got THEN Get(r.json.f, "value", PyNone) ELSE PyNone
           w == IF got
                THEN _cache_variable(store, client.api_key, call.name, v, cache_ok)
                ELSE [raised |-> TRUE, store |-> store]
           writes == IF got
                     THEN <<[name |-> call.name, value |-> v, ok |-> cache_ok]>>
                     ELSE <<>>
           rd == _get_variable_from_cache(w.store, client.api_key, call.name,
                                          cache_ok)
       IN  /\ store' = w.store
           /\ IF ~w.raised
              THEN ret' = [status |-> "returned", value |-> v, branch |-> "try",
                           resp |-> resp, writes |-> writes, reads |-> <<>>,
                           before |-> store]
              ELSE ret' = [status |-> IF rd.raised THEN "raised" ELSE "returned",
                           value |-> rd.value, branch |-> "except", resp |-> resp,
                           writes |-> writes,
                           reads |-> <<[kind |-> "get", name |-> call.name,
                                        ok |-> cache_ok]>>,
                           before |-> store]
    /\ pc' = "done"
    /\ UNCHANGED <<client, call, qs, sig, threads, carried>>

(***************************************************************************)
(* Envbee.get_variables.                                                   *)
(***************************************************************************)
\* lines 241-245: params holds an argument only if it is truthy
build_params(offset, limit) ==
    (IF Truthy(offset) THEN <<[k |-> "offset", v |-> offset]>> ELSE <<>>)
    \o (IF Truthy(limit) THEN <<[k |-> "limit", v |-> limit]>> ELSE <<>>)

\* a get_variables that signs the path before the query string is added
GetVariablesCall_bare(offset, limit, now) ==
    /\ pc = "idle"
    /\ LET url == add_querystring([path |-> "/variables", query |-> <<>>,
                                   fragment |-> ""],
                                  build_params(offset, limit))
           url_path == urlunparse(url)
           h == _generate_hmac_header(client.api_secret, "/variables", now)
           final_url == client.base_url \o url_path
           c == [NoCall EXCEPT !.op = "get_variables", !.offset = offset,
                               !.limit = limit, !.query = url.query,
                               !.url_path = url_path, !.signed = "/variables"]
       IN  IF h.raised
           THEN /\ call' = c
                /\ pc' = "done"
                /\ ret' = [NoRet EXCEPT !.status = "raised", !.branch = "sign",
                                        !.before = store]
           ELSE /\ call' = [c EXCEPT !.header = h.header, !.final_url = final_url,
                                     !.wire = requests_get(<<>>, final_url, h.header,
                                                           client.api_key)]
                /\ pc' = "waiting"
                /\ ret' = NoRet
    /\ UNCHANGED <<client, store, qs, sig, fetched, threads, carried>>

\* lines 239-251, up to the request being sent
GetVariablesCall(offset, limit, now) ==
    /\ pc = "idle"
    /\ LET url == add_querystring([path |-> "/variables", query |-> <<>>,
                                   fragment |-> ""],
                                  build_params(offset, limit))
           url_path == urlunparse(url)
           h == _generate_hmac_header(client.api_secret, url_path, now)
           final_url == client.base_url \o url_path
           c == [NoCall EXCEPT !.op = "get_variables", !.offset = offset,
                               !.limit = limit, !.query = url.query,
                               !.url_path = url_path, !.signed = url_path]
       IN  IF h.raised
           THEN /\ call' = c
                /\ pc' = "done"
                /\ ret' = [NoRet EXCEPT !.status = "raised", !.branch = "sign",
                                        !.before = store]
           ELSE /\ call' = [c EXCEPT !.header = h.header, !.final_url = final_url,
                                     !.wire = requests_get(<<>>, final_url, h.header,
                                                           client.api_key)]
                /\ pc' = "waiting"
                /\ ret' = NoRet
    /\ UNCHANGED <<client, store, qs, sig, fetched, threads, carried>>

\* lines 252-253: the loop from entry i on. v["name"] and v["value"] are
\* evaluated before _cache_variable is entered, so an entry lacking one
\* raises KeyError out of the loop; the write of entry i fails if i is in
\* wfail
RECURSIVE cache_loop(_, _, _, _, _)
cache_loop(st, api_key, data, i, wfail) ==
    IF i > Len(data) THEN [store |-> st, writes |-> <<>>, raised |-> FALSE]
    ELSE LET v == data[i]
         IN  IF ~({"name", "value"} \subseteq DOMAIN v)
             THEN [store |-> st, writes |-> <<>>, raised |-> TRUE]
             ELSE LET ok == i \notin wfail
                      w == _cache_variable(st, api_key, v.name, v.value, ok)
                      rest == IF w.raised
                              THEN [store |-> w.store, writes |-> <<>>,
                                    raised |-> TRUE]
                              ELSE cache_loop(w.store, api_key, data, i + 1, wfail)
                  IN  [store |-> rest.store,
                       writes |-> <<[name |-> v.name, value |-> v.value,
                                     ok |-> ok]>> \o rest.writes,
                       raised |-> rest.raised]

\* lines 251-259, from the transport's outcome to the return
GetVariablesResume(resp, wfail, read_ok) ==
    /\ pc = "waiting"
    /\ call.op = "get_variables"
    /\ LET r == _send_request(resp)
           \* .get of a body that is no object raises AttributeError
           got == ~r.raised /\ r.json.t = "obj"
           data == IF got THEN Get(r.json.f, "data", PyList(<<>>)) ELSE PyNone
           \* iterating None raises TypeError
           loop == IF data.t = "list"
                   THEN cache_loop(store, client.api_key, data.l, 1, wfail)
                   ELSE [store |-> store, writes |-> <<>>, raised |-> TRUE]
       IN  \* wfail names writes the call makes
           /\ wfail \subseteq 1..Len(loop.writes)
           /\ store' = loop.store
           /\ IF ~loop.raised
              THEN ret' = [status |-> "returned", value |-> data, branch |-> "try",
                           resp |-> resp, writes |-> loop.writes, reads |-> <<>>,
                           before |-> store]
              ELSE \E keys \in Orders(DOMAIN CacheAt(loop.store,
                                          user_cache_dir(client.api_key, "envbee"))) :
                     LET rd == _get_variables_from_cache(loop.store, client.api_key,
                                                         keys, read_ok)
                     IN  ret' = [status |-> IF rd.raised THEN "raised"
                                            ELSE "returned",
                                 value |-> rd.value, branch |-> "except",
                                 resp |-> resp, writes |-> loop.writes,
                                 reads |-> <<[kind |-> "all", name |-> "",
                                              ok |-> read_ok]>>,
                                 before |-> store]
    /\ pc' = "done"
    /\ UNCHANGED <<client, call, qs, sig, threads, carried>>

\* lines 76, 218, 224, 255, 259: the call has ended and its caller has the
\* result or the exception; the client is ready for the next call
Return ==
    /\ pc = "done"
    /\ pc' = "idle"
    /\ call' = NoCall
    /\ ret' = NoRet
    /\ UNCHANGED <<client, store, qs, sig, fetched, threads, carried>>

Next ==
    \/ \E n \in Names \cup BadNames, now \in Times : GetVariableCall(n, now)
    \/ \E resp \in Responses, ok \in BOOLEAN :
           GetVariableResume(resp, ok) /\ UNCHANGED fetched
    \/ \E o \in Offsets, l \in Limits, now \in Times : GetVariablesCall(o, l, now)
    \/ \E resp \in Responses, wfail \in SUBSET (1..MaxData), ok \in BOOLEAN :
           GetVariablesResume(resp, wfail, ok) /\ UNCHANGED fetched
    \/ Return

Spec == Init /\ [][Next]_vars

\* the same client on a disk that holds the cache of another API key
SpecDisk == InitDisk /\ [][Next]_vars

(***************************************************************************)
(* Calls of one client from several threads. The client has no lock, so    *)
(* the calls interleave at every access to the cache: Cache.set, Cache.get,*)
(* list(reference) and reference[k] are each one atomic step, and what a   *)
(* call does between two of them is local to it.                           *)
(***************************************************************************)
\* the names get_variable is called with, and the outcomes of the transport
ConcNames == {"A"}
ConcResponses ==
    {r \in Responses :
        \/ r.kind = "http" /\ r.status = 500
        \/ /\ r.kind = "http" /\ r.status = 200 /\ r.body.t = "obj"
           /\ r.body.f \in
                 {[value |-> PyStr("x")], [value |-> PyStr("y")],
                  [data |-> PyList(<<[name |-> "A", value |-> PyStr("x")]>>)],
                  [data |-> PyList(<<[name |-> "B", value |-> PyStr("y")],
                                     [name |-> "A", value |-> PyStr("y")]>>)],
                  [data |-> PyList(<<[name |-> "A", value |-> PyStr("x")],
                                     [name |-> "A"]>>)]}}

\* the (name, value) pairs a response gives a call to cache: line 216 for
\* get_variable, the entries of lines 251-253 for get_variables
CarriedBy(op, variable_name, json) ==
    IF op = "get_variable"
    THEN {[name |-> variable_name, value |-> Get(json.f, "value", PyNone)]}
    ELSE LET data == Get(json.f, "data", PyList(<<>>))
         IN  IF data.t = "list"
             THEN {data.l[i] : i \in {j \in 1..Len(data.l) :
                                         {"name", "value"} \subseteq DOMAIN data.l[j]}}
             ELSE {}

\* the threads after thread t became rec and the cache became cache: the
\* threads in the middle of reading the cache item by item have one more
\* content of the cache within their read
ThreadsAfter(t, rec, cache, written) ==
    [u \in Threads |->
        IF u = t THEN rec
        ELSE IF written /\ threads[u].pc = "items"
             THEN [threads[u] EXCEPT !.moments = @ \cup {cache}]
             ELSE threads[u]]

\* lines 252-254 between two cache writes: where the loop of get_variables
\* stands before entry i: at the return after the last entry, in the
\* except clause on an entry lacking a field, else at the write of entry i
LoopAt(rec, data, i) ==
    IF i > Len(data.l)
    THEN [rec EXCEPT !.pc = "done", !.status = "returned", !.value = data,
                     !.branch = "try", !.i = 0]
    ELSE IF ~({"name", "value"} \subseteq DOMAIN data.l[i])
         THEN [rec EXCEPT !.pc = "keys", !.i = 0]
         ELSE [rec EXCEPT !.pc = "loop", !.i = i]

\* lines 210-214 and 239-250: the call up to the request being sent
ThreadCall(t, op, variable_name, now) ==
    /\ threads[t].pc = "idle"
    /\ LET url_path ==
               IF op = "get_variable"
               THEN "/variables-values/" \o variable_name
               ELSE urlunparse(add_querystring(
                        [path |-> "/variables", query |-> <<>>, fragment |-> ""],
                        build_params(PyNone, PyNone)))
           h == _generate_hmac_header(client.api_secret, url_path, now)
           rec == [NoThread EXCEPT !.op = op, !.name = variable_name]
       IN  threads' = [threads EXCEPT ![t] =
                          IF h.raised
                          THEN [rec EXCEPT !.pc = "done", !.status = "raised",
                                           !.branch = "sign"]
                          ELSE [rec EXCEPT !.pc = "waiting"]]
    /\ UNCHANGED <<client, store, pc, call, ret, qs, sig, fetched, carried>>

\* lines 215-216, 219 and 251-252, 255: the outcome of the transport
\* reaches the call, which goes on to its first access to the cache
ThreadResponse(t, resp) ==
    /\ threads[t].pc = "waiting"
    /\ LET r == _send_request(resp)
           got == ~r.raised /\ r.json.t = "obj"
           rec == [threads[t] EXCEPT !.json = r.json]
           data == IF got THEN Get(r.json.f, "data", PyList(<<>>)) ELSE PyNone
       IN  /\ threads' = [threads EXCEPT ![t] =
                  IF rec.op = "get_variable"
                  THEN [rec EXCEPT !.pc = IF got THEN "set" ELSE "get"]
                  ELSE IF data.t = "list"
                       THEN LoopAt(rec, data, 1)
                       ELSE [rec EXCEPT !.pc = "keys"]]
           /\ carried' = IF got
                         THEN carried \cup CarriedBy(rec.op, rec.name, r.json)
                         ELSE carried
    /\ UNCHANGED <<client, store, pc, call, ret, qs, sig, fetched>>

\* lines 217-218: get_variable caches the value and returns it
ThreadCacheVariable(t) ==
    /\ threads[t].pc = "set"
    /\ LET v == Get(threads[t].json.f, "value", PyNone)
           w == _cache_variable(store, client.api_key, threads[t].name, v, TRUE)
           rec == [threads[t] EXCEPT !.pc = "done", !.status = "returned",
                                     !.value = v, !.branch = "try"]
       IN  /\ store' = w.store
           /\ threads' = ThreadsAfter(t, rec,
                             CacheAt(w.store, user_cache_dir(client.api_key, "envbee")),
                             TRUE)
    /\ UNCHANGED <<client, pc, call, ret, qs, sig, fetched, carried>>

\* line 253: get_variables caches entry i and goes on with the loop
ThreadCacheEntry(t) ==
    /\ threads[t].pc = "loop"
    /\ LET data == Get(threads[t].json.f, "data", PyList(<<>>))
           v == data.l[threads[t].i]
           w == _cache_variable(store, client.api_key, v.name, v.value, TRUE)
       IN  /\ store' = w.store
           /\ threads' = ThreadsAfter(t, LoopAt(threads[t], data, threads[t].i + 1),
                             CacheAt(w.store, user_cache_dir(client.api_key, "envbee")),
                             TRUE)
    /\ UNCHANGED <<client, pc, call, ret, qs, sig, fetched, carried>>

\* lines 220-224: get_variable falls back to the cache: one Cache.get
ThreadGet(t) ==
    /\ threads[t].pc = "get"
    /\ LET rd == _get_variable_from_cache(store, client.api_key, threads[t].name, TRUE)
       IN  threads' = [threads EXCEPT ![t] =
               [@ EXCEPT !.pc = "done",
                         !.status = IF rd.raised THEN "raised" ELSE "returned",
                         !.value = rd.value, !.branch = "except",
                         !.moments = {CacheAt(store, user_cache_dir(client.api_key,
                                                                   "envbee"))}]]
    /\ UNCHANGED <<client, store, pc, call, ret, qs, sig, fetched, carried>>

\* lines 256-259 and 190: get_variables falls back to the cache:
\* list(reference) gives the keys the cache holds now, in its order
ThreadKeys(t) ==
    /\ threads[t].pc = "keys"
    /\ LET cache == CacheAt(store, user_cache_dir(client.api_key, "envbee"))
       IN  \E keys \in Orders(DOMAIN cache) :
               threads' = [threads EXCEPT ![t] =
                   IF keys = <<>>
                   THEN [@ EXCEPT !.pc = "done", !.status = "returned",
                                  !.value = PyList(<<>>), !.branch = "except",
                                  !.moments = {cache}]
                   ELSE [@ EXCEPT !.pc = "items", !.keys = keys, !.i = 1,
                                  !.value = PyList(<<>>), !.branch = "except",
                                  !.moments = {cache}]]
    /\ UNCHANGED <<client, store, pc, call, ret, qs, sig, fetched, carried>>

\* lines 189-191: reference[k] for the next key of the list, and the
\* return after the last one
ThreadItem(t) ==
    /\ threads[t].pc = "items"
    /\ LET k == threads[t].keys[threads[t].i]
           rd == _get_variables_from_cache(store, client.api_key, <<k>>, TRUE)
           acc == PyList(threads[t].value.l \o rd.value.l)
       IN  threads' = [threads EXCEPT ![t] =
               IF threads[t].i = Len(threads[t].keys)
               THEN [@ EXCEPT !.pc = "done", !.status = "returned", !.value = acc,
                              !.i = 0]
               ELSE [@ EXCEPT !.value = acc, !.i = @ + 1]]
    /\ UNCHANGED <<client, store, pc, call, ret, qs, sig, fetched, carried>>

\* lines 76, 218, 224, 255, 259: the call has ended
ThreadReturn(t) ==
    /\ threads[t].pc = "done"
    /\ threads' = [threads EXCEPT ![t] = NoThread]
    /\ UNCHANGED <<client, store, pc, call, ret, qs, sig, fetched, carried>>

NextConc ==
    \E t \in Threads :
        \/ \E n \in ConcNames, now \in Times : ThreadCall(t, "get_variable", n, now)
        \/ \E now \in Times : ThreadCall(t, "get_variables", "", now)
        \/ \E resp \in ConcResponses : ThreadResponse(t, resp)
        \/ ThreadCacheVariable(t)
        \/ ThreadCacheEntry(t)
        \/ ThreadGet(t)
        \/ ThreadKeys(t)
        \/ ThreadItem(t)
        \/ ThreadReturn(t)

SpecConc == Init /\ [][NextConc]_vars

(***************************************************************************)
(* Envbee._generate_hmac_header on its own: the calls of the signer, each  *)
(* with the secret, the path and the clock reading it got and what it gave.*)
(***************************************************************************)
MaxSigns == 2
SignSecrets ==
    {[type |-> "bytes", key |-> "s1"], [type |-> "bytes", key |-> "s2"],
     [type |-> "str", key |-> "s1"]}
SignPaths == {"/variables?offset=10&limit=5", "/variables-values/A", "/variables-values/U"}
SignTimes == {1000, 2000}

\* one call of the signer; now is what time.time() gives, in milliseconds
Sign(api_secret, url_path, now) ==
    /\ Len(sig) < MaxSigns
    /\ sig' = Append(sig, [api_secret |-> api_secret, url_path |-> url_path,
                           now |-> now,
                           out |-> _generate_hmac_header(api_secret, url_path, now)])
    /\ UNCHANGED <<client, store, pc, call, ret, qs, fetched, threads, carried>>

NextSign ==
    \E api_secret \in SignSecrets, url_path \in SignPaths, now \in SignTimes :
        Sign(api_secret, url_path, now)

SpecSign == Init /\ [][NextSign]_vars

(***************************************************************************)
(* The calls of one client with a cache that works, and the record of what *)
(* its successful fetches returned.                                        *)
(***************************************************************************)
\* the record after the entries of a fetched array from entry i on, each
\* name with the value of its entry
RECURSIVE FetchedEntries(_, _, _)
FetchedEntries(f, data, i) ==
    IF i > Len(data) THEN f
    ELSE FetchedEntries(CacheSet(f, data[i].name, data[i].value), data, i + 1)

\* the record after get_variable(variable_name) got resp: a fetch that
\* succeeded (line 215 returned an object) gave the name the value of
\* line 216
FetchedByGetVariable(f, variable_name, resp) ==
    LET r == _send_request(resp)
    IN  IF ~r.raised /\ r.json.t = "obj"
        THEN CacheSet(f, variable_name, Get(r.json.f, "value", PyNone))
        ELSE f

\* the record after get_variables got resp: a fetch that succeeded (lines
\* 251-254 reached the return) gave each name of the array its value
FetchedByGetVariables(f, resp) ==
    LET r == _send_request(resp)
        got == ~r.raised /\ r.json.t = "obj"
        data == IF got THEN Get(r.json.f, "data", PyList(<<>>)) ELSE PyNone
    IN  IF /\ data.t = "list"
           /\ \A i \in 1..Len(data.l) : {"name", "value"} \subseteq DOMAIN data.l[i]
        THEN FetchedEntries(f, data.l, 1)
        ELSE f

NextWarm ==
    \/ \E n \in Names \cup BadNames, now \in Times : GetVariableCall(n, now)
    \/ \E resp \in Responses :
           /\ GetVariableResume(resp, TRUE)
           /\ fetched' = FetchedByGetVariable(fetched, call.name, resp)
    \/ \E o \in Offsets, l \in Limits, now \in Times : GetVariablesCall(o, l, now)
    \/ \E resp \in Responses :
           /\ GetVariablesResume(resp, {}, TRUE)
           /\ fetched' = FetchedByGetVariables(fetched, resp)
    \/ Return

SpecWarm == Init /\ [][NextWarm]_vars

(***************************************************************************)
(* add_querystring on its own, over URLs that already carry a query.       *)
(***************************************************************************)
RawPairs == {[k |-> k, v |-> v] : k \in {"offset", "flag"}, v \in {"5", "", "a%20b"}}
Urls ==
    {[path |-> "/variables", query |-> q, fragment |-> f] :
        q \in SeqsUpTo(RawPairs, MaxQuery), f \in {"", "top"}}
ParamDicts ==
    {build_params(o, l) : o \in Offsets, l \in Limits \cup {PyStr("a b")}}

AddQuerystring(url, params) ==
    /\ qs = NoQS
    /\ qs' = [url |-> url, params |-> params,
              result |-> add_querystring(url, params)]
    /\ UNCHANGED <<client, store, pc, call, ret, sig, fetched, threads, carried>>

NextQS == \E url \in Urls, params \in ParamDicts : AddQuerystring(url, params)

SpecQS == Init /\ [][NextQS]_vars

(***************************************************************************)
(* The claims.  A call that has ended is read off call and ret in the      *)
(* state with pc = "done".                                                 *)
(***************************************************************************)
Ended == pc = "done"
EndedGetVariable == Ended /\ call.op = "get_variable"
EndedGetVariables == Ended /\ call.op = "get_variables"
\* signing succeeded: the call got its header and went on to the request
Signed == call.header # ""
\* the cache of the client's credential, now and when the response came
CacheNow == CacheAt(store, user_cache_dir(client.api_key, "envbee"))
CacheBefore == CacheAt(ret.before, user_cache_dir(client.api_key, "envbee"))
\* the transport gave HTTP 200 with a JSON object
Got200Object ==
    /\ ret.resp.kind = "http"
    /\ ret.resp.status = 200
    /\ ret.resp.body.t = "obj"
\* the remote attempt failed: non-200, timeout, network error, or a body
\* that is no JSON object
RemoteFailed == Signed /\ ~Got200Object
HasFields(v) == {"name", "value"} \subseteq DOMAIN v
\* HTTP 200 with a JSON object whose 'data' is an array
Got200Data ==
    /\ Got200Object
    /\ "data" \in DOMAIN ret.resp.body.f
    /\ ret.resp.body.f.data.t = "list"
\* the remote fetch of the call succeeded: a 200 whose body has the shape
\* the endpoint gives (an object; for get_variables, 'data' absent or an
\* array of entries with both fields)
FetchSucceeded ==
    /\ Signed
    /\ Got200Object
    /\ call.op = "get_variables" /\ "data" \in DOMAIN ret.resp.body.f =>
          /\ ret.resp.body.f.data.t = "list"
          /\ \A i \in 1..Len(ret.resp.body.f.data.l) :
                 HasFields(ret.resp.body.f.data.l[i])

\* C1: when the request of get_variable gets HTTP 200 with a JSON object
\* whose 'value' is x, the call returns x, makes exactly one cache write,
\* of (name, x), which, when it works, leaves x in the cache under name,
\* and makes no cache read.
C1_FetchedValueCachedAndReturned ==
    (EndedGetVariable /\ Got200Object /\ "value" \in DOMAIN ret.resp.body.f) =>
        LET x == ret.resp.body.f.value
        IN  /\ ret.status = "returned"
            /\ ret.value = x
            /\ Len(ret.writes) = 1
            /\ ret.writes[1].name = call.name
            /\ ret.writes[1].value = x
            /\ ret.writes[1].ok =>
                  /\ call.name \in DOMAIN CacheNow
                  /\ CacheNow[call.name] = x
            /\ ret.reads = <<>>
C1_Witness ==
    /\ EndedGetVariable /\ Got200Object /\ "value" \in DOMAIN ret.resp.body.f
    /\ ret.writes[1].ok
    /\ call.name \in DOMAIN CacheBefore
    /\ CacheBefore[call.name] # ret.value

\* what the cache held under the name of the call when the response came
CachedOrNone ==
    IF call.name \in DOMAIN CacheBefore THEN CacheBefore[call.name] ELSE PyNone

\* C2 as stated: when the remote attempt of get_variable fails, the call
\* does not raise and returns the value the cache holds under the name, or
\* None when it holds none.
C2_FallbackReturnsCached ==
    (EndedGetVariable /\ RemoteFailed) =>
        /\ ret.status = "returned"
        /\ ret.value = CachedOrNone
\* C2 as amended: ... or None when the cache holds none or the read of the
\* cache itself fails.
C2_FallbackReturnsCachedIfReadable ==
    (EndedGetVariable /\ RemoteFailed) =>
        /\ ret.status = "returned"
        /\ Len(ret.reads) = 1
        /\ ret.value = IF ret.reads[1].ok THEN CachedOrNone ELSE PyNone
C2_Witness ==
    /\ EndedGetVariable /\ RemoteFailed
    /\ ret.resp.status = 500
    /\ ret.reads[1].ok
    /\ call.name \in DOMAIN CacheBefore
    /\ ret.value = PyStr("x")

\* C3 as stated: when the request of get_variables gets HTTP 200 with a
\* 'data' array, the call attempts a cache write for every entry, going on
\* after a write that fails, and returns the array as fetched.
C3_EveryEntryWrittenArrayReturned ==
    (EndedGetVariables /\ Got200Data) =>
        LET data == ret.resp.body.f.data
        IN  /\ ret.status = "returned"
            /\ Len(ret.writes) = Len(data.l)
            /\ \A i \in 1..Len(data.l) :
                   HasFields(data.l[i]) =>
                       /\ ret.writes[i].name = data.l[i].name
                       /\ ret.writes[i].value = data.l[i].value
            /\ ret.value = data

\* the items of a list returned, as a set
ItemsOf(v) == {v.l[i] : i \in 1..Len(v.l)}
\* one {name, value} item for each entry of a cache
ItemsOfCache(cache) == {[name |-> n, value |-> cache[n]] : n \in DOMAIN cache}
\* the remote attempt of get_variables failed, a body of the wrong shape
\* included
GetVariablesFailed == Signed /\ ~FetchSucceeded

\* C4 as stated: when the remote attempt of get_variables fails, the call
\* returns without raising a list with exactly one item for each entry of
\* the cache and nothing else.
C4_FallbackReturnsWholeCache ==
    (EndedGetVariables /\ GetVariablesFailed) =>
        /\ ret.status = "returned"
        /\ ret.value.t = "list"
        /\ Len(ret.value.l) = Cardinality(DOMAIN CacheNow)
        /\ ItemsOf(ret.value) = ItemsOfCache(CacheNow)
\* C4 with the cache readable: the call does not raise, and when the read
\* of the cache works it returns that list.
C4_FallbackReturnsWholeCacheIfReadable ==
    (EndedGetVariables /\ GetVariablesFailed) =>
        /\ ret.status = "returned"
        /\ Len(ret.reads) = 1
        /\ ret.reads[1].ok =>
              /\ ret.value.t = "list"
              /\ Len(ret.value.l) = Cardinality(DOMAIN CacheNow)
              /\ ItemsOf(ret.value) = ItemsOfCache(CacheNow)

\* C5 as stated: a call writes to the cache only if its remote fetch
\* succeeded, and reads the cache only if its remote fetch failed.
C5_WriteOnSuccessReadOnFailure ==
    Ended =>
        /\ ret.writes # <<>> => FetchSucceeded
        /\ ret.reads # <<>> => ~FetchSucceeded

\* C6 as stated: every call makes exactly one remote attempt, and after a
\* failed attempt only the one fallback read follows.
C6_OneAttemptPerCall ==
    Ended =>
        /\ Len(call.wire) = 1
        /\ RemoteFailed => Len(ret.reads) = 1
\* C6 as amended: every call whose signing succeeds makes exactly one
\* remote attempt, with the request on the wire while the call waits and
\* none added after the outcome; a call whose signing fails makes none.
C6_OneAttemptPerSignedCall ==
    /\ pc = "waiting" => Len(call.wire) = 1
    /\ Ended =>
          /\ Len(call.wire) = IF Signed THEN 1 ELSE 0
          /\ RemoteFailed => Len(ret.reads) = 1
C6_Witness ==
    /\ Ended /\ RemoteFailed
    /\ ret.resp.kind = "neterr"
    /\ Len(call.wire) = 1
    /\ Len(ret.reads) = 1

\* C7: provided signing succeeds, no failure of the remote attempt and no
\* failure of the cache, on write or on read, makes get_variable or
\* get_variables raise: the call ends by returning.
C7_NeverRaisesOnceSigned ==
    (Ended /\ Signed) => ret.status = "returned"
C7_Witness ==
    /\ EndedGetVariables /\ Signed
    /\ ret.resp.kind = "timeout"
    /\ ~ret.reads[1].ok
    /\ ret.status = "returned"
    /\ ret.value = PyNone

\* what the call returns when the remote attempt fails and the cache is
\* empty
EmptyCacheResult ==
    IF call.op = "get_variable"
    THEN _get_variable_from_cache(<<>>, client.api_key, call.name, TRUE).value
    ELSE _get_variables_from_cache(<<>>, client.api_key, <<>>, TRUE).value
\* what the call returns when the fetch succeeds and every write works
FetchedResult ==
    IF call.op = "get_variable"
    THEN Get(ret.resp.body.f, "value", PyNone)
    ELSE Get(ret.resp.body.f, "data", PyList(<<>>))

\* C8 as stated: a failing cache access counts as an empty cache: with the
\* remote attempt failed and the fallback read failing, the call returns
\* what it returns with the cache empty; with a write failing after a
\* fetch that succeeded, it returns what it returns when the write works.
C8_FailingCacheIsEmptyCache ==
    /\ (Ended /\ RemoteFailed /\ ret.reads # <<>> /\ ~ret.reads[1].ok) =>
           ret.value = EmptyCacheResult
    /\ (Ended /\ FetchSucceeded /\ \E i \in 1..Len(ret.writes) : ~ret.writes[i].ok) =>
           ret.value = FetchedResult

\* an argument that was given, 0 included
Provided(a) == a.t # "none"
\* the parameters the query of get_variables(offset, limit) is to carry
ExpectedQuery ==
    {[k |-> "offset", v |-> Str(call.offset)] : x \in {a \in {call.offset} : Provided(a)}}
    \cup {[k |-> "limit", v |-> Str(call.limit)] : x \in {a \in {call.limit} : Provided(a)}}

\* C9 as stated: get_variables(offset, limit) requests '/variables' with
\* offset=<offset> exactly when offset was given and limit=<limit> exactly
\* when limit was given, 0 included, and no other parameter.
C9_QueryCarriesGivenArguments ==
    (call.op = "get_variables" /\ Signed) =>
        /\ {call.query[i] : i \in 1..Len(call.query)} = ExpectedQuery
        /\ Len(call.query) = Cardinality(ExpectedQuery)
        /\ call.url_path = urlunparse([path |-> "/variables", query |-> call.query,
                                       fragment |-> ""])
        /\ call.wire[1].url = client.base_url \o call.url_path
        /\ (call.offset = PyInt(10) /\ call.limit = PyInt(5)) =>
               call.url_path = "/variables?offset=10&limit=5"

\* the keys of a raw query, and the values a key has in it, in order
QueryKeys(q) == {unquote_plus(q[i].k) : i \in 1..Len(q)}
RECURSIVE QueryValues(_, _)
QueryValues(q, k) ==
    IF q = <<>> THEN <<>>
    ELSE (IF unquote_plus(q[1].k) = k THEN <<unquote_plus(q[1].v)>> ELSE <<>>)
         \o QueryValues(Tail(q), k)

\* C10 as stated: add_querystring(url, params) returns the URL with the
\* query whose keys are those of the URL and those of params, each key of
\* params with the value of params, each other key with its values; the
\* path and the other parts are unchanged.
C10_QueryMerged ==
    qs # NoQS =>
        /\ qs.result.path = qs.url.path
        /\ qs.result.fragment = qs.url.fragment
        /\ QueryKeys(qs.result.query) = QueryKeys(qs.url.query) \cup DictKeys(qs.params)
        /\ \A k \in DictKeys(qs.params) :
               QueryValues(qs.result.query, k) = <<Str(DictGet(qs.params, k))>>
        /\ \A k \in QueryKeys(qs.url.query) \ DictKeys(qs.params) :
               QueryValues(qs.result.query, k) = QueryValues(qs.url.query, k)

\* C11: a successful get_variable whose cache write works never fails on
\* an entry already there: it returns, and the cache is what it was with
\* the name now holding the value fetched (the last write wins), so with
\* the same response as the call before it leaves the cache as it was.
C11_LastWriteWins ==
    (EndedGetVariable /\ Got200Object /\ ret.writes # <<>> /\ ret.writes[1].ok) =>
        LET x == Get(ret.resp.body.f, "value", PyNone)
        IN  /\ ret.status = "returned"
            /\ call.name \in DOMAIN CacheNow
            /\ CacheNow[call.name] = x
            /\ \A n \in DOMAIN CacheBefore \ {call.name} :
                   n \in DOMAIN CacheNow /\ CacheNow[n] = CacheBefore[n]
            /\ DOMAIN CacheNow = DOMAIN CacheBefore \cup {call.name}
            /\ (call.name \in DOMAIN CacheBefore /\ CacheBefore[call.name] = x) =>
                   store = ret.before
C11_Witness ==
    /\ EndedGetVariable /\ Got200Object /\ ret.writes # <<>> /\ ret.writes[1].ok
    /\ call.name = "A"
    /\ DOMAIN CacheBefore = {"A", "B"}
    /\ CacheBefore["A"] = PyStr("x")
    /\ ret.value = PyStr("y")
    /\ CacheNow["A"] = PyStr("y")

\* the header the service expects for a key, a path and a clock reading
ExpectedHeader(key, path, now) ==
    "HMAC " \o ToString(now) \o ":"
    \o hmac_hexdigest(key, ToString(now) \o "GET" \o path \o content_hash)

\* the path of the call as the endpoint and the arguments make it
PathOfCall ==
    IF call.op = "get_variable"
    THEN "/variables-values/" \o call.name
    ELSE urlunparse([path |-> "/variables", query |-> call.query, fragment |-> ""])

\* signing fails on a secret that is no bytes and on a path that has no
\* UTF-8 encoding
SignFails ==
    client.api_secret.type # "bytes" \/ ~Utf8Encodable(PathOfCall)

\* C13: in every call the path given to the signer is the path, query
\* string included, that is appended to the base URL and sent, the header
\* sent is the signature of that path, and nothing is on the wire unless
\* the signature was produced.
C13_SignedPathIsSentPath ==
    /\ call.op # "none" => call.signed = PathOfCall
    /\ call.wire # <<>> =>
           /\ Signed
           /\ \A i \in 1..Len(call.wire) :
                  /\ call.wire[i].url = client.base_url \o call.signed
                  /\ call.wire[i].Authorization = call.header
           /\ \E now \in Times :
                  call.header = ExpectedHeader(client.api_secret.key, PathOfCall, now)
    /\ (call.op # "none" /\ ~Signed) => call.wire = <<>>
C13_Witness ==
    /\ pc = "waiting"
    /\ call.op = "get_variables"
    /\ Len(call.query) = 2
    /\ call.wire # <<>>
    /\ call.wire[1].url = "http://localhost:8080" \o call.signed

\* C15: when signing fails the call raises and has no other effect: no
\* request is sent, the cache is neither read nor written, and no value is
\* returned.
C15_SignFailureHasNoEffect ==
    /\ (call.op # "none" /\ SignFails) => pc # "waiting"
    /\ (Ended /\ SignFails) =>
           /\ ret.status = "raised"
           /\ ret.value = PyNone
           /\ call.wire = <<>>
           /\ ret.writes = <<>>
           /\ ret.reads = <<>>
           /\ store = ret.before
C15_Witness ==
    /\ Ended
    /\ SignFails
    /\ client.api_secret.type = "bytes"
    /\ call.name \in BadNames
    /\ "A" \in DOMAIN CacheNow
    /\ ret.status = "raised"

\* C17: no call both writes to and reads from the cache: a call that ends
\* in the fallback has written nothing and leaves the cache as it found
\* it, also when the body of the 200 is malformed.
C17_FallbackWritesNothing ==
    Ended =>
        /\ ~(ret.writes # <<>> /\ ret.reads # <<>>)
        /\ ret.branch = "except" => store = ret.before

\* the cache directory of the client's key and that of the other key
OwnDir == user_cache_dir(client.api_key, "envbee")
OtherDir == user_cache_dir(OtherKey(client.api_key), "envbee")

\* v is or holds what the other key's cache holds
HoldsOtherValue(v) ==
    \/ v = OtherValue
    \/ /\ v.t = "list"
       /\ \E i \in 1..Len(v.l) : HasFields(v.l[i]) /\ v.l[i].value = OtherValue

\* C12: the cache is partitioned per API key: whatever the client does,
\* the cache directory of every other key stays as it was, the client's
\* writes land in the directory of its own key, and no call returns a
\* value stored under another key.
C12_CachePartitioned ==
    /\ OwnDir # OtherDir
    /\ CacheAt(store, OtherDir) = [n \in Names |-> OtherValue]
    /\ \A d \in DOMAIN store : d \in {OwnDir, OtherDir}
    /\ Ended =>
           /\ \A d \in DOMAIN ret.before \cup DOMAIN store :
                  d # OwnDir => CacheAt(store, d) = CacheAt(ret.before, d)
           /\ ~HoldsOtherValue(ret.value)
           /\ \A i \in 1..Len(ret.writes) :
                  ret.writes[i].ok =>
                      /\ ret.writes[i].name \in DOMAIN CacheNow
                      /\ \/ CacheNow[ret.writes[i].name] = ret.writes[i].value
                         \/ \E j \in (i+1)..Len(ret.writes) :
                                ret.writes[j].ok /\ ret.writes[j].name = ret.writes[i].name
C12_Witness ==
    /\ Ended
    /\ ret.branch = "except"
    /\ ret.reads # <<>> /\ ret.reads[1].ok
    /\ CacheAt(store, OtherDir) = [n \in Names |-> OtherValue]
    /\ DOMAIN CacheNow = {"A"}
    /\ ret.value = PyList(<<[name |-> "A", value |-> PyStr("x")]>>)

\* what the successful fetches so far last returned for the name of the call
LastFetchedOrNone ==
    IF call.name \in DOMAIN fetched THEN fetched[call.name] ELSE PyNone

\* C16 as stated: with a working cache, a get_variable whose remote attempt
\* fails returns what the most recent successful fetch that contained the
\* name, by either operation, returned for it, and None only if no
\* successful fetch before it contained the name.
C16_FallbackServesLastFetched ==
    (EndedGetVariable /\ RemoteFailed) =>
        /\ ret.status = "returned"
        /\ ret.value = LastFetchedOrNone
        /\ call.name \notin DOMAIN fetched => ret.value = PyNone

\* C14: the signer is a function of secret, path and clock reading: two
\* calls with the same three give the same outcome, and the header is
\* 'HMAC <timestamp>:<signature>' with the timestamp that was signed and
\* the signature made of the secret, that timestamp, 'GET', the path and
\* the digest of the empty body, whatever client signs.
C14_SignerDeterministic ==
    /\ \A i \in 1..Len(sig) :
           /\ sig[i].out.raised <=>
                  (sig[i].api_secret.type # "bytes" \/ ~Utf8Encodable(sig[i].url_path))
           /\ ~sig[i].out.raised =>
                  sig[i].out.header =
                      ExpectedHeader(sig[i].api_secret.key, sig[i].url_path, sig[i].now)
    /\ \A i, j \in 1..Len(sig) :
           (/\ sig[i].api_secret = sig[j].api_secret
            /\ sig[i].url_path = sig[j].url_path
            /\ sig[i].now = sig[j].now) => sig[i].out = sig[j].out
C14_Witness ==
    /\ Len(sig) = 2
    /\ sig[1].api_secret = sig[2].api_secret
    /\ sig[1].url_path = "/variables?offset=10&limit=5"
    /\ sig[2].url_path = sig[1].url_path
    /\ sig[1].now = 2000 /\ sig[2].now = 2000
    /\ sig[1].api_secret.key = "s2"
    /\ sig[2].out.header =
           "HMAC 2000:hmac(s2,2000GET/variables?offset=10&limit=599914b932bd37a50b983c5e7c90ae93b)"
    /\ sig[1].out = sig[2].out

\* what the 200 response of a thread's call carried for the call
OwnFetched(th) ==
    IF th.op = "get_variable"
    THEN Get(th.json.f, "value", PyNone)
    ELSE Get(th.json.f, "data", PyList(<<>>))

\* the call of the thread returned the content the cache had at one moment
\* of its fallback read
SnapshotReturned(th) ==
    \E m \in th.moments :
        IF th.op = "get_variable"
        THEN th.value = IF th.name \in DOMAIN m THEN m[th.name] ELSE PyNone
        ELSE /\ th.value.t = "list"
             /\ Len(th.value.l) = Cardinality(DOMAIN m)
             /\ ItemsOf(th.value) = ItemsOfCache(m)

\* the call of the thread returned one item for each key the cache had
\* when the read began, each with a value the cache held under that key at
\* some moment of the read
ItemsReturned(th) ==
    /\ th.value.t = "list"
    /\ Len(th.value.l) = Len(th.keys)
    /\ \A i \in 1..Len(th.keys) :
           /\ th.value.l[i].name = th.keys[i]
           /\ \E m \in th.moments :
                  th.keys[i] \in DOMAIN m /\ th.value.l[i].value = m[th.keys[i]]
    /\ \E m \in th.moments : DOMAIN m = {th.keys[i] : i \in 1..Len(th.keys)}

\* every entry of the cache is a value some 200 response carried for its name
CacheHoldsCarried ==
    \A n \in DOMAIN CacheNow : [name |-> n, value |-> CacheNow[n]] \in carried

\* C18 as stated: under any interleaving of calls that share one cache,
\* every call that returns gives the value(s) of its own 200 response or
\* the content of the cache at the moment of its fallback read, and every
\* entry of the cache is a value some 200 response carried for that name.
C18_OwnResponseOrCacheContent ==
    /\ \A t \in Threads :
           (threads[t].pc = "done" /\ threads[t].status = "returned") =>
               \/ threads[t].branch = "try" /\ threads[t].value = OwnFetched(threads[t])
               \/ threads[t].branch = "except" /\ SnapshotReturned(threads[t])
    /\ CacheHoldsCarried

\* C18 as amended: ... or, in fallback, get_variable gives the value the
\* cache held at the moment of its read and get_variables gives one item
\* for each key the cache had when its read began, each with a value the
\* cache held under that key at some moment of the read, not all at the
\* same moment; every entry of the cache is a value some 200 response
\* carried for that name, and the client never changes.
C18_OwnResponseOrCacheItems ==
    /\ [](/\ \A t \in Threads :
                (threads[t].pc = "done" /\ threads[t].status = "returned") =>
                    \/ /\ threads[t].branch = "try"
                       /\ threads[t].value = OwnFetched(threads[t])
                    \/ /\ threads[t].branch = "except"
                       /\ IF threads[t].op = "get_variable"
                          THEN SnapshotReturned(threads[t])
                          ELSE ItemsReturned(threads[t])
          /\ CacheHoldsCarried)
    /\ [][client' = client]_vars
C18_Witness ==
    \E t \in Threads :
        /\ threads[t].pc = "done"
        /\ threads[t].op = "get_variables"
        /\ threads[t].branch = "except"
        /\ threads[t].status = "returned"
        /\ ~SnapshotReturned(threads[t])
        /\ ItemsReturned(threads[t])
        /\ Len(threads[t].value.l) = 1
        /\ Cardinality(DOMAIN CacheNow) = 2

====
